---- MODULE Spec2Model ----
(***************************************************************************)
(* Model of the two command-line programs of aws-go-tools:                 *)
(*   - scan-stacks (src/cmd/scan-stacks/main.go): the Stack Scanner        *)
(*   - the Task Log Fetcher (src/unnamed/part_000)                         *)
(* Both are sequential.  One step of the model runs the program from one   *)
(* call of an AWS service to the next; the answers of the services are     *)
(* drawn from small sets.  The variable prog says which binary runs.       *)
(***************************************************************************)
EXTENDS Integers, Sequences, FiniteSets, TLC

VARIABLES
  prog,            \* "scan" or "logs": the binary that was started
  pc,              \* position of the program
  exit,            \* "running", or the exit code of the process: "0", "1", "2"
  env,             \* the environment variables (Nil: unset)
  region,          \* main's local region
  cfg,             \* scan: the aws.Config of LoadDefaultConfig
  allRegionNames,  \* scan: main's list of regions to scan
  ri,              \* scan: index of the region loop
  stacks,          \* scan: *stacks of the current region
  si,              \* scan: index of the stack loop
  acc,             \* scan: allStacks / allStackResources inside an enumeration
  nextToken,       \* nextToken of the running enumeration / paginator
  calls,           \* the pages exchanged by the running enumeration
  lastReq,         \* the last request sent to a service, with its answer
  nReq,            \* the number of requests sent to the services
  out,             \* the lines the last step wrote with the log package
  clients,         \* logs: the clients constructed
  logStreamName,   \* logs: main's logStreamName
  firstPage,       \* logs: the paginator's firstPage flag
  input,           \* logs: the GetLogEventsInput of getLogEvents
  served,          \* logs: the events the service has served, in order
  stdout           \* logs: the lines printed to standard output

vars == <<prog, pc, exit, env, region, cfg, allRegionNames, ri, stacks, si,
          acc, nextToken, calls, lastReq, nReq, out, clients, logStreamName,
          firstPage, input, served, stdout>>

scanVars == <<cfg, allRegionNames, ri, stacks, si, acc>>
logsVars == <<clients, logStreamName, firstPage, input, served, stdout>>

----------------------------------------------------------------------------
(* Bounds of the model *)

\* pages a service serves for one enumeration
MaxPages == 2
\* items on one page
MaxItems == 1
\* regions DescribeRegions returns
MaxRegions == 2
\* requests one run of a program sends to the services
MaxRequests == 5

----------------------------------------------------------------------------
(* Go values *)

\* A pointer is a sequence: the nil pointer is empty, a pointer to v holds v.
Nil == <<>>
Ptr(v) == <<v>>
Deref(p) == p[1]

\* os.Getenv: the value, "" when the variable is unset.
Getenv(name) == IF env[name] = Nil THEN "" ELSE Deref(env[name])

DefaultRegion == "us-west-2"

\* region := os.Getenv("AWS_REGION"); if region == "" { region = "us-west-2" }
RegionOrDefault(r) == IF r = "" THEN DefaultRegion ELSE r

NilSafeString(s) == IF s = Nil THEN "<nil>" ELSE Deref(s)

Times == {0, 1}

\* time.Time.Format(time.RFC3339) of the two instants of the model, in UTC
FormatTime(t, layout) ==
  IF layout = "RFC3339"
    THEN (IF t = 0 THEN "1970-01-01T00:00:00Z" ELSE "1970-01-01T00:00:01Z")
    ELSE layout

NilSafeTime(tmp, fmt) ==
  IF tmp = Nil THEN "<nil>"
  ELSE FormatTime(Deref(tmp), IF fmt = "" THEN "RFC3339" ELSE fmt)

SeqsUpTo(S, n) == UNION {[1..k -> S] : k \in 0..n}

NoRequest == [op |-> "none"]

----------------------------------------------------------------------------
(* The services' data, as seen by the Stack Scanner *)

RegionNames == {"us-west-2", "eu-west-1"}

\* the region of the shared configuration profile
ProfileRegions == {"us-east-1"}

\* ec2Types.Region: RegionName is a *string
Regions == {[RegionName |-> n] : n \in {Nil} \cup {Ptr(r) : r \in RegionNames}}

\* cfTypes.StackSummary (the fields main prints; every *string goes through
\* NilSafeString and every *time.Time through NilSafeTime)
StackSummaries ==
  { [StackId |-> Ptr("stack-a"), StackName |-> Ptr("a"),
     StackStatus |-> "CREATE_COMPLETE", CreationTime |-> Ptr(0)],
    [StackId |-> Ptr("stack-b"), StackName |-> Nil,
     StackStatus |-> "UPDATE_COMPLETE", CreationTime |-> Nil],
    [StackId |-> Nil, StackName |-> Ptr("c"),
     StackStatus |-> "CREATE_COMPLETE", CreationTime |-> Ptr(1)] }

\* cfTypes.StackResourceSummary
StackResourceSummaries ==
  { [PhysicalResourceId |-> Ptr("queue-1"), ResourceStatus |-> "CREATE_COMPLETE",
     LastUpdatedTimestamp |-> Ptr(1)],
    [PhysicalResourceId |-> Nil, ResourceStatus |-> "CREATE_FAILED",
     LastUpdatedTimestamp |-> Nil] }

\* continuation tokens a service hands out
Tokens == {"t1", "t2"}

\* The answers a paginated list operation may give for its n-th page: an
\* error, or a page of items with a token for the next page (none on the
\* last page a service is willing to serve).
PageOutputs(items, n) ==
  {[err |-> TRUE]} \cup
  {[err |-> FALSE, Items |-> s, NextToken |-> t] :
     s \in SeqsUpTo(items, MaxItems),
     t \in {Nil} \cup (IF n < MaxPages THEN {Ptr(k) : k \in Tokens} ELSE {})}

----------------------------------------------------------------------------
(* Stack Scanner: src/cmd/scan-stacks/main.go *)

\* StackStatusFilter of the ListStacksInput
StackStatusFilter ==
  << "CREATE_IN_PROGRESS", "CREATE_FAILED", "CREATE_COMPLETE",
     "ROLLBACK_IN_PROGRESS", "ROLLBACK_FAILED", "ROLLBACK_COMPLETE",
     "DELETE_IN_PROGRESS", "DELETE_FAILED",
     "UPDATE_IN_PROGRESS", "UPDATE_FAILED", "UPDATE_COMPLETE",
     "UPDATE_ROLLBACK_IN_PROGRESS", "UPDATE_ROLLBACK_FAILED",
     "UPDATE_ROLLBACK_COMPLETE_CLEANUP_IN_PROGRESS", "UPDATE_ROLLBACK_COMPLETE",
     "REVIEW_IN_PROGRESS",
     "IMPORT_IN_PROGRESS", "IMPORT_COMPLETE",
     "IMPORT_ROLLBACK_IN_PROGRESS", "IMPORT_ROLLBACK_FAILED",
     "IMPORT_ROLLBACK_COMPLETE" >>

\* A request goes out, while the run has requests left.
Request == nReq < MaxRequests /\ nReq' = nReq + 1

\* The process ends: log.Fatalf exits with 1, a panic with 2, main's return 0.
Stop(code) == pc' = "exited" /\ exit' = code

\* allStacks = append(allStacks, output.StackSummaries...)
AppendPageDropsEarlier(all, page) == page
AppendPage(all, page) == all \o page

\* if output.NextToken == nil { break }
IsLastPage(output) == output.NextToken = Nil

\* allRegionNames := []string{region}
InitialRegionNamesEmpty(r) == <<>>
InitialRegionNames(r) == <<r>>

\* for _, region := range *regions { if region.RegionName != nil { append } }
RECURSIVE AppendRegionNames(_, _)
AppendRegionNames(names, regions) ==
  IF regions = <<>> THEN names
  ELSE AppendRegionNames(
         IF Head(regions).RegionName # Nil
           THEN Append(names, Deref(Head(regions).RegionName))
           ELSE names,
         Tail(regions))

\* The lines main logs for one stack
StackLines(stack) ==
  << <<"- Stack:", "">>,
     <<"Id", NilSafeString(stack.StackId)>>,
     <<"Name", NilSafeString(stack.StackName)>>,
     <<"Status", stack.StackStatus>>,
     <<"Creation Time", NilSafeTime(stack.CreationTime, "")>> >>

\* The lines main logs for one stack resource
ResourceLines(r) ==
  << <<"- Stack Resource:", "">>,
     <<"Physical Resource Id", NilSafeString(r.PhysicalResourceId)>>,
     <<"Status", r.ResourceStatus>>,
     <<"Last Updated Time", NilSafeTime(r.LastUpdatedTimestamp, "")>> >>

RECURSIVE AllResourceLines(_)
AllResourceLines(rs) ==
  IF rs = <<>> THEN <<>> ELSE ResourceLines(Head(rs)) \o AllResourceLines(Tail(rs))

\* main, to config.LoadDefaultConfig: the region local, then the configuration,
\* whose region the SDK resolves from AWS_REGION or, without it, the profile.
ScanLoadConfig ==
  /\ prog = "scan" /\ pc = "start"
  /\ region' = RegionOrDefault(Getenv("AWS_REGION"))
  /\ \E cerr \in BOOLEAN :
       IF cerr
         THEN /\ Stop("1")
              /\ out' = << <<"Unable to load AWS configuration", "">> >>
              /\ UNCHANGED cfg
         ELSE /\ \E r \in (IF Getenv("AWS_REGION") = "" THEN ProfileRegions
                           ELSE {Getenv("AWS_REGION")}) :
                   cfg' = [Region |-> r]
              /\ pc' = "identity"
              /\ out' = <<>>
              /\ UNCHANGED exit
  /\ UNCHANGED <<prog, nReq, env, allRegionNames, ri, stacks, si, acc, nextToken,
                 calls, lastReq>>
  /\ UNCHANGED logsVars

\* getCallerIdentity and the banner: the three fields are dereferenced.
ScanCallerIdentity ==
  /\ prog = "scan" /\ pc = "identity"
  /\ Request
  /\ \E err \in BOOLEAN, account, userId, arn \in {Nil, Ptr("id")} :
       /\ lastReq' = [op |-> "GetCallerIdentity", Region |-> cfg.Region, err |-> err]
       /\ IF err
            THEN /\ Stop("1")
                 /\ out' = << <<"Unable to get caller identity", "">> >>
            ELSE IF Nil \in {account, userId, arn}
              THEN /\ Stop("2")
                   /\ out' = IF account = Nil THEN <<>>
                             ELSE IF userId = Nil
                               THEN << <<"AWS Account ID", Deref(account)>> >>
                               ELSE << <<"AWS Account ID", Deref(account)>>,
                                       <<"AWS User ID", Deref(userId)>> >>
              ELSE /\ pc' = "regions"
                   /\ out' = << <<"AWS Account ID", Deref(account)>>,
                                <<"AWS User ID", Deref(userId)>>,
                                <<"AWS ARN", Deref(arn)>> >>
                   /\ UNCHANGED exit
  /\ UNCHANGED <<prog, env, region, cfg, allRegionNames, ri, stacks, si, acc,
                 nextToken, calls>>
  /\ UNCHANGED logsVars

\* getAWSRegions and the assembly of allRegionNames
ScanGetRegions ==
  /\ prog = "scan" /\ pc = "regions"
  /\ Request
  /\ \E err \in BOOLEAN, regions \in SeqsUpTo(Regions, MaxRegions) :
       IF err
         THEN /\ lastReq' = [op |-> "DescribeRegions", Region |-> cfg.Region,
                             err |-> TRUE, Regions |-> <<>>]
              /\ Stop("1")
              /\ out' = << <<"Unable to DescribeRegions", "">> >>
              /\ UNCHANGED <<allRegionNames, ri>>
         ELSE /\ lastReq' = [op |-> "DescribeRegions", Region |-> cfg.Region,
                             err |-> FALSE, Regions |-> regions]
              /\ allRegionNames' =
                   AppendRegionNames(InitialRegionNames(region), regions)
              /\ ri' = 1
              /\ pc' = "regionLoop"
              /\ out' = << <<"All detected AWS Regions", "">> >>
              /\ UNCHANGED exit
  /\ UNCHANGED <<prog, env, region, cfg, stacks, si, acc, nextToken, calls>>
  /\ UNCHANGED logsVars

\* The head of the region loop: the heading, and the entry of
\* cloudFormationListStacks; after the last region main returns.
ScanNextRegion ==
  /\ prog = "scan" /\ pc = "regionLoop"
  /\ IF ri > Len(allRegionNames)
       THEN /\ Stop("0")
            /\ out' = <<>>
            /\ UNCHANGED <<acc, nextToken, calls>>
       ELSE /\ out' = << <<"- Region", allRegionNames[ri]>> >>
            /\ acc' = <<>>
            /\ nextToken' = Nil
            /\ calls' = <<>>
            /\ pc' = "listStacks"
            /\ UNCHANGED exit
  /\ UNCHANGED <<prog, nReq, env, region, cfg, allRegionNames, ri, stacks, si, lastReq>>
  /\ UNCHANGED logsVars

\* One turn of the loop of cloudFormationListStacks: a request, its answer,
\* and, after the last page, the return to main.
ScanListStacksPage ==
  /\ prog = "scan" /\ pc = "listStacks"
  /\ Request
  /\ \E output \in PageOutputs(StackSummaries, Len(calls) + 1) :
       /\ lastReq' = [op |-> "ListStacks", Region |-> cfg.Region,
                      NextToken |-> nextToken,
                      StackStatusFilter |-> StackStatusFilter,
                      err |-> output.err]
       /\ IF output.err
            THEN /\ Stop("1")
                 /\ out' = << <<"Unable to ListStacks", "">> >>
                 /\ UNCHANGED <<acc, nextToken, calls, stacks, si>>
            ELSE /\ acc' = AppendPage(acc, output.Items)
                 /\ calls' = Append(calls, [sent |-> nextToken,
                                            Items |-> output.Items,
                                            next |-> output.NextToken])
                 /\ out' = <<>>
                 /\ UNCHANGED exit
                 /\ IF IsLastPage(output)
                      THEN /\ stacks' = acc'
                           /\ si' = 1
                           /\ pc' = "stackLoop"
                           /\ UNCHANGED nextToken
                      ELSE /\ nextToken' = output.NextToken
                           /\ UNCHANGED <<stacks, si, pc>>
  /\ UNCHANGED <<prog, env, region, cfg, allRegionNames, ri>>
  /\ UNCHANGED logsVars

\* The head of the stack loop: the stack's lines, *stack.StackId, and the
\* entry of cloudFormationListStackResources; after the last stack the empty
\* line and the next region.
ScanNextStack ==
  /\ prog = "scan" /\ pc = "stackLoop"
  /\ IF si > Len(stacks)
       THEN /\ out' = << <<"", "">> >>
            /\ ri' = ri + 1
            /\ pc' = "regionLoop"
            /\ UNCHANGED <<exit, acc, nextToken, calls>>
       ELSE /\ out' = StackLines(stacks[si])
            /\ UNCHANGED ri
            /\ IF stacks[si].StackId = Nil
                 THEN /\ Stop("2")
                      /\ UNCHANGED <<acc, nextToken, calls>>
                 ELSE /\ acc' = <<>>
                      /\ nextToken' = Nil
                      /\ calls' = <<>>
                      /\ pc' = "listStackResources"
                      /\ UNCHANGED exit
  /\ UNCHANGED <<prog, nReq, env, region, cfg, allRegionNames, stacks, si, lastReq>>
  /\ UNCHANGED logsVars

\* One turn of the loop of cloudFormationListStackResources and, after the
\* last page, the resources' lines and the next stack.
ScanListStackResourcesPage ==
  /\ prog = "scan" /\ pc = "listStackResources"
  /\ Request
  /\ \E output \in PageOutputs(StackResourceSummaries, Len(calls) + 1) :
       /\ lastReq' = [op |-> "ListStackResources", Region |-> cfg.Region,
                      NextToken |-> nextToken,
                      StackName |-> Ptr(Deref(stacks[si].StackId)),
                      err |-> output.err]
       /\ IF output.err
            THEN /\ Stop("1")
                 /\ out' = << <<"Unable to ListStacks", "">> >>
                 /\ UNCHANGED <<acc, nextToken, calls, si>>
            ELSE /\ acc' = AppendPage(acc, output.Items)
                 /\ calls' = Append(calls, [sent |-> nextToken,
                                            Items |-> output.Items,
                                            next |-> output.NextToken])
                 /\ UNCHANGED exit
                 /\ IF IsLastPage(output)
                      THEN /\ out' = AllResourceLines(acc')
                           /\ si' = si + 1
                           /\ pc' = "stackLoop"
                           /\ UNCHANGED nextToken
                      ELSE /\ out' = <<>>
                           /\ nextToken' = output.NextToken
                           /\ UNCHANGED <<si, pc>>
  /\ UNCHANGED <<prog, env, region, cfg, allRegionNames, ri, stacks>>
  /\ UNCHANGED logsVars

----------------------------------------------------------------------------
(* Task Log Fetcher: src/unnamed/part_000 *)

UnixTimeFactor == 1000

\* seconds of the clock, time.Now().Unix(), when getLogEvents starts
Nows == {3600, 7200}

\* ecs Container: Name is a *string
Containers == {[Name |-> Nil], [Name |-> Ptr("app")], [Name |-> Ptr("sidecar")]}

\* ecs Task
Tasks == {[Containers |-> c] : c \in SeqsUpTo(Containers, MaxItems)}

\* The answers of DescribeTasks to a request that names one task: an error,
\* no task, the task, or the task followed by another one
DescribeTasksOutputs ==
  {[err |-> TRUE, Tasks |-> <<>>], [err |-> FALSE, Tasks |-> <<>>]} \cup
  {[err |-> FALSE, Tasks |-> <<t>>] : t \in Tasks} \cup
  {[err |-> FALSE, Tasks |-> <<t, [Containers |-> <<>>]>>] : t \in Tasks}

\* cloudwatchlogs OutputLogEvent: Timestamp is a *int64, Message a *string
LogEvents ==
  { [Timestamp |-> Ptr(1000), Message |-> Ptr("hello")],
    [Timestamp |-> Ptr(2000), Message |-> Ptr("world")],
    [Timestamp |-> Nil, Message |-> Ptr("hello")],
    [Timestamp |-> Ptr(2000), Message |-> Nil] }

\* The answers of GetLogEvents for the n-th page
GetLogEventsOutputs(n) ==
  {[err |-> TRUE]} \cup
  {[err |-> FALSE, Events |-> s, NextForwardToken |-> t] :
     s \in SeqsUpTo(LogEvents, MaxItems),
     t \in {Nil} \cup (IF n < MaxPages THEN {Ptr(k) : k \in Tokens} ELSE {})}

\* time.UnixMilli(ms).String() of the two instants of the model, local zone UTC
UnixMilliString(ms) ==
  IF ms = 1000 THEN "1970-01-01 00:00:01 +0000 UTC"
  ELSE "1970-01-01 00:00:02 +0000 UTC"

\* The first required variable main finds empty, "" when there is none
MissingRequiredSkipsLogGroup(cluster, taskID, logGroupName) ==
  IF cluster = "" THEN "ECS_CLUSTER"
  ELSE IF taskID = "" THEN "ECS_TASK_ID"
  ELSE ""
MissingRequired(cluster, taskID, logGroupName) ==
  IF cluster = "" THEN "ECS_CLUSTER"
  ELSE IF taskID = "" THEN "ECS_TASK_ID"
  ELSE IF logGroupName = "" THEN "LOG_GROUP_NAME"
  ELSE ""

\* getTaskLogStreamName, on the answer of DescribeTasks: a name, an error, or
\* the panic of *container.Name on a nil Name
getTaskLogStreamName(resp) ==
  IF resp.err THEN [kind |-> "err", val |-> "failed to describe tasks"]
  ELSE IF Len(resp.Tasks) = 0 THEN [kind |-> "err", val |-> "task not found"]
  ELSE IF Len(resp.Tasks[1].Containers) = 0
    THEN [kind |-> "err", val |-> "no containers found in task"]
  ELSE IF resp.Tasks[1].Containers[1].Name = Nil
    THEN [kind |-> "panic", val |-> ""]
  ELSE [kind |-> "ok", val |-> Deref(resp.Tasks[1].Containers[1].Name)]

\* paginator.HasMorePages()
HasMorePages == firstPage \/ nextToken # Nil

\* The line fmt.Printf writes for one event
EventLine(event) ==
  <<UnixMilliString(Deref(event.Timestamp)), Deref(event.Message)>>

\* The number of leading events the print loop gets through before an event
\* with a nil Timestamp or Message makes it panic
RECURSIVE PrintableLen(_)
PrintableLen(events) ==
  IF events = <<>> THEN 0
  ELSE IF Head(events).Timestamp = Nil \/ Head(events).Message = Nil THEN 0
  ELSE 1 + PrintableLen(Tail(events))

EventLines(events) == [i \in 1..Len(events) |-> EventLine(events[i])]

\* main, to the construction of the clients: the environment
LogsCheckEnv ==
  /\ prog = "logs" /\ pc = "start"
  /\ region' = RegionOrDefault(Getenv("AWS_REGION"))
  /\ IF MissingRequired(Getenv("ECS_CLUSTER"), Getenv("ECS_TASK_ID"),
                        Getenv("LOG_GROUP_NAME")) # ""
       THEN /\ Stop("2")
            /\ out' = << <<"panic", MissingRequired(Getenv("ECS_CLUSTER"),
                            Getenv("ECS_TASK_ID"), Getenv("LOG_GROUP_NAME"))>> >>
       ELSE pc' = "clients" /\ UNCHANGED <<exit, out>>
  /\ UNCHANGED <<prog, nReq, env, nextToken, calls, lastReq>>
  /\ UNCHANGED scanVars
  /\ UNCHANGED logsVars

\* getECSClient and getCloudWatchLogsClient
LogsCreateClients ==
  /\ prog = "logs" /\ pc = "clients"
  /\ \E ecsErr, cwErr \in BOOLEAN :
       IF ecsErr
         THEN /\ Stop("1")
              /\ out' = << <<"failed to create ECS client", "">> >>
              /\ UNCHANGED clients
         ELSE IF cwErr
           THEN /\ Stop("1")
                /\ out' = << <<"failed to create CloudWatch Logs client", "">> >>
                /\ clients' = {[service |-> "ecs", Region |-> region]}
           ELSE /\ clients' = {[service |-> "ecs", Region |-> region],
                               [service |-> "cloudwatchlogs", Region |-> region]}
                /\ pc' = "describeTasks"
                /\ UNCHANGED <<exit, out>>
  /\ UNCHANGED <<prog, nReq, env, region, nextToken, calls, lastReq>>
  /\ UNCHANGED scanVars
  /\ UNCHANGED <<logStreamName, firstPage, input, served, stdout>>

\* getTaskLogStreamName, the "Log Stream Name" line, and the entry of
\* getLogEvents: the time window and a fresh paginator
LogsGetTaskLogStreamName ==
  /\ prog = "logs" /\ pc = "describeTasks"
  /\ Request
  /\ \E resp \in DescribeTasksOutputs, now \in Nows :
       LET res == getTaskLogStreamName(resp) IN
       /\ lastReq' = [op |-> "DescribeTasks", Region |-> region,
                      Cluster |-> Getenv("ECS_CLUSTER"),
                      Tasks |-> <<Getenv("ECS_TASK_ID")>>,
                      err |-> resp.err, resp |-> resp.Tasks]
       /\ IF res.kind = "err"
            THEN /\ Stop("1")
                 /\ out' = << <<"failed to get log stream name", res.val>> >>
                 /\ UNCHANGED <<logStreamName, stdout, input, firstPage>>
            ELSE IF res.kind = "panic"
              THEN /\ Stop("2")
                   /\ out' = << <<"panic", "nil pointer dereference">> >>
                   /\ UNCHANGED <<logStreamName, stdout, input, firstPage>>
              ELSE /\ logStreamName' = res.val
                   /\ out' = <<>>
                   /\ stdout' = << <<"Log Stream Name", res.val>> >>
                   /\ input' = [LogGroupName |-> Getenv("LOG_GROUP_NAME"),
                                LogStreamName |-> res.val,
                                StartTime |-> (now - 3600) * UnixTimeFactor,
                                EndTime |-> now * UnixTimeFactor]
                   /\ firstPage' = TRUE
                   /\ pc' = "getLogEvents"
                   /\ UNCHANGED exit
  /\ nextToken' = Nil
  /\ calls' = <<>>
  /\ UNCHANGED <<prog, env, region, clients, served>>
  /\ UNCHANGED scanVars

\* One turn of the loop of getLogEvents: a page and its events' lines; when
\* the paginator has no more pages getLogEvents and main return.
LogsNextPage ==
  /\ prog = "logs" /\ pc = "getLogEvents"
  /\ IF ~HasMorePages
       THEN /\ Stop("0")
            /\ UNCHANGED <<lastReq, nReq, nextToken, calls, firstPage, served, stdout,
                           out>>
       ELSE \E page \in GetLogEventsOutputs(Len(calls) + 1) :
            /\ Request
            /\ lastReq' = [op |-> "GetLogEvents", Region |-> region,
                           input |-> input, NextToken |-> nextToken,
                           err |-> page.err]
            /\ IF page.err
                 THEN /\ Stop("1")
                      /\ out' = << <<"failed to get log events", "">> >>
                      /\ UNCHANGED <<nextToken, calls, firstPage, served, stdout>>
                 ELSE /\ firstPage' = FALSE
                      /\ nextToken' = page.NextForwardToken
                      /\ calls' = Append(calls, [sent |-> nextToken,
                                                 Items |-> page.Events,
                                                 next |-> page.NextForwardToken])
                      /\ served' = served \o page.Events
                      /\ stdout' = stdout \o
                           EventLines(SubSeq(page.Events, 1, PrintableLen(page.Events)))
                      /\ IF PrintableLen(page.Events) < Len(page.Events)
                           THEN /\ Stop("2")
                                /\ out' = << <<"panic", "nil pointer dereference">> >>
                           ELSE UNCHANGED <<pc, exit, out>>
  /\ UNCHANGED <<prog, env, region, clients, logStreamName, input>>
  /\ UNCHANGED scanVars

----------------------------------------------------------------------------
(* The two programs *)

EnvValues == {Nil, Ptr("")}

Init ==
  /\ prog \in {"scan", "logs"}
  /\ pc = "start"
  /\ exit = "running"
  /\ \E awsRegion \in EnvValues \cup {Ptr("eu-west-1")},
        cluster \in EnvValues \cup {Ptr("prod")},
        taskID \in EnvValues \cup {Ptr("task-1")},
        logGroupName \in EnvValues \cup {Ptr("/ecs/app")} :
       /\ prog = "scan" => cluster = Nil /\ taskID = Nil /\ logGroupName = Nil
       /\ env = [AWS_REGION |-> awsRegion, ECS_CLUSTER |-> cluster,
                 ECS_TASK_ID |-> taskID, LOG_GROUP_NAME |-> logGroupName]
  /\ region = ""
  /\ cfg = [Region |-> ""]
  /\ allRegionNames = <<>>
  /\ ri = 0
  /\ stacks = <<>>
  /\ si = 0
  /\ acc = <<>>
  /\ nextToken = Nil
  /\ calls = <<>>
  /\ lastReq = NoRequest
  /\ nReq = 0
  /\ out = <<>>
  /\ clients = {}
  /\ logStreamName = ""
  /\ firstPage = FALSE
  /\ input = [LogGroupName |-> "", LogStreamName |-> "", StartTime |-> 0,
              EndTime |-> 0]
  /\ served = <<>>
  /\ stdout = <<>>

Next ==
  \/ ScanLoadConfig
  \/ ScanCallerIdentity
  \/ ScanGetRegions
  \/ ScanNextRegion
  \/ ScanListStacksPage
  \/ ScanNextStack
  \/ ScanListStackResourcesPage
  \/ LogsCheckEnv
  \/ LogsCreateClients
  \/ LogsGetTaskLogStreamName
  \/ LogsNextPage

Spec == Init /\ [][Next]_vars

----------------------------------------------------------------------------
(* Vocabulary of the claims *)

\* The values of the SDK's cfTypes.StackStatus enumeration
AllStackStatuses ==
  { "CREATE_IN_PROGRESS", "CREATE_FAILED", "CREATE_COMPLETE",
    "ROLLBACK_IN_PROGRESS", "ROLLBACK_FAILED", "ROLLBACK_COMPLETE",
    "DELETE_IN_PROGRESS", "DELETE_FAILED", "DELETE_COMPLETE",
    "UPDATE_IN_PROGRESS", "UPDATE_COMPLETE_CLEANUP_IN_PROGRESS",
    "UPDATE_COMPLETE", "UPDATE_FAILED",
    "UPDATE_ROLLBACK_IN_PROGRESS", "UPDATE_ROLLBACK_FAILED",
    "UPDATE_ROLLBACK_COMPLETE_CLEANUP_IN_PROGRESS", "UPDATE_ROLLBACK_COMPLETE",
    "REVIEW_IN_PROGRESS",
    "IMPORT_IN_PROGRESS", "IMPORT_COMPLETE",
    "IMPORT_ROLLBACK_IN_PROGRESS", "IMPORT_ROLLBACK_FAILED",
    "IMPORT_ROLLBACK_COMPLETE" }

Range(f) == {f[i] : i \in DOMAIN f}

\* The items of the pages of an enumeration, in page order
RECURSIVE PagesItems(_)
PagesItems(pages) ==
  IF pages = <<>> THEN <<>> ELSE Head(pages).Items \o PagesItems(Tail(pages))

RECURSIVE SumOfPageCounts(_)
SumOfPageCounts(pages) ==
  IF pages = <<>> THEN 0 ELSE Len(Head(pages).Items) + SumOfPageCounts(Tail(pages))

\* The first request carries no token and each later one the token of the
\* page before it.
TokensFollow(pages) ==
  \A i \in 1..Len(pages) :
    pages[i].sent = (IF i = 1 THEN Nil ELSE pages[i - 1].next)

\* The enumeration went on after every page with a token and only after those.
StopsAtFirstAbsentToken(pages, returned) ==
  /\ \A i \in 1..(Len(pages) - 1) : pages[i].next # Nil
  /\ returned <=> (pages # <<>> /\ pages[Len(pages)].next = Nil)

\* The names of the discovered regions that have one, in discovery order
DiscoveredNames(regions) ==
  LET named == SelectSeq(regions, LAMBDA r : r.RegionName # Nil)
  IN  [i \in 1..Len(named) |-> Deref(named[i].RegionName)]

IsUnsetOrEmpty(v) == v = Nil \/ v = Ptr("")

RequiredIsMissing ==
  \/ IsUnsetOrEmpty(env.ECS_CLUSTER)
  \/ IsUnsetOrEmpty(env.ECS_TASK_ID)
  \/ IsUnsetOrEmpty(env.LOG_GROUP_NAME)

FallbackRegion ==
  IF IsUnsetOrEmpty(env.AWS_REGION) THEN "us-west-2" ELSE Deref(env.AWS_REGION)

----------------------------------------------------------------------------
(* The claims *)

\* C1: when list-stack-resources fails for one stack, the scanner logs the
\* error, skips that stack and goes on with the next stack; the process does
\* not abort.  (Stated as the claim has it; the code exits with status 1.)
C1_PerStackFailureIsolation ==
  (prog = "scan" /\ lastReq.op = "ListStackResources" /\ lastReq.err)
    => (exit = "running" /\ pc = "stackLoop")

\* C2: the list-stacks and list-stack-resources requests issued during the
\* iteration of region r are addressed to region r.  (Stated as the claim has
\* it; the code addresses every request to the region of the one
\* configuration loaded at start.)
C2_RequestsAddressedToLoopRegion ==
  (prog = "scan" /\ pc \in {"listStacks", "listStackResources", "stackLoop"}
     /\ lastReq.op \in {"ListStacks", "ListStackResources"})
    => lastReq.Region = allRegionNames[ri]

\* C3: in both enumerations, served without error, the first request carries
\* no token, each later request the token of the page before, the loop stops
\* right after the first page without a token, and what is returned is the
\* concatenation of the pages' items in page order, its length the sum of the
\* pages' counts (an empty single page gives the empty sequence, no error).
C3_PaginatedEnumeration ==
  (prog = "scan" /\ exit = "running"
     /\ pc \in {"listStacks", "listStackResources", "stackLoop"})
    => /\ TokensFollow(calls)
       /\ StopsAtFirstAbsentToken(calls, pc = "stackLoop")
       /\ (pc = "stackLoop" /\ lastReq.op = "ListStacks")
            => /\ stacks = PagesItems(calls)
               /\ Len(stacks) = SumOfPageCounts(calls)
               /\ si = 1
       /\ (pc = "stackLoop" /\ lastReq.op = "ListStackResources")
            => /\ acc = PagesItems(calls)
               /\ Len(acc) = SumOfPageCounts(calls)
               /\ out = AllResourceLines(PagesItems(calls))
       /\ pc \in {"listStacks", "listStackResources"}
            => /\ acc = PagesItems(calls)
               /\ nextToken = (IF calls = <<>> THEN Nil ELSE calls[Len(calls)].next)

\* C3 witness: list-stacks has returned the two items of two pages.
C3_Witness ==
  /\ prog = "scan" /\ pc = "stackLoop" /\ lastReq.op = "ListStacks"
  /\ Len(calls) = 2 /\ Len(stacks) = 2 /\ stacks[1] # stacks[2]

\* C4: when list-stacks fails for one region, the scanner logs the error,
\* skips the region and goes on with the next one; the process is not
\* terminated.  (Stated as the claim has it; the code exits with status 1.)
C4_PerRegionFailureIsolation ==
  (prog = "scan" /\ lastReq.op = "ListStacks" /\ lastReq.err)
    => (exit = "running" /\ pc = "regionLoop")

\* C5: every list-stacks request carries the filter that is exactly all stack
\* statuses but DELETE_COMPLETE.  (Stated as the claim has it; the code's
\* filter leaves out UPDATE_COMPLETE_CLEANUP_IN_PROGRESS as well.)
C5_FilterIsAllButDeleteComplete ==
  (prog = "scan" /\ lastReq.op = "ListStacks")
    => Range(lastReq.StackStatusFilter) = AllStackStatuses \ {"DELETE_COMPLETE"}

\* C6: a null field of a stack, a stack resource or a log event never faults
\* the program: a stack with a null id does not crash the scanner, a log
\* event with a null timestamp or message does not crash the fetcher.
\* (Stated as the claim has it; the code dereferences these fields.)
C6_NullFieldNeverFaults ==
  /\ (prog = "scan" /\ si \in 1..Len(stacks) /\ stacks[si].StackId = Nil)
       => exit # "2"
  /\ (prog = "logs" /\ \E i \in 1..Len(served) :
                         served[i].Timestamp = Nil \/ served[i].Message = Nil)
       => exit # "2"

\* C7: in the fetcher, when ECS_CLUSTER, ECS_TASK_ID or LOG_GROUP_NAME is
\* unset or empty the process aborts with no client constructed and no
\* request sent; an unset AWS_REGION aborts nothing and us-west-2 is used.
C7_RequiredEnvironment ==
  prog = "logs" =>
    /\ RequiredIsMissing
         => /\ clients = {} /\ nReq = 0 /\ lastReq = NoRequest
            /\ pc \in {"start", "exited"}
            /\ pc = "exited" => exit = "2"
    /\ (~RequiredIsMissing /\ pc # "start")
         => /\ region = FallbackRegion
            /\ \A c \in clients : c.Region = FallbackRegion
            /\ lastReq.op # "none" => lastReq.Region = FallbackRegion
            /\ nReq = 0 => exit # "2"

\* C7 witness: only LOG_GROUP_NAME is missing, and the process has aborted.
C7_Witness ==
  /\ prog = "logs" /\ pc = "exited" /\ exit = "2"
  /\ ~IsUnsetOrEmpty(env.ECS_CLUSTER) /\ ~IsUnsetOrEmpty(env.ECS_TASK_ID)
  /\ env.LOG_GROUP_NAME = Nil /\ env.AWS_REGION = Nil

\* C8: getTaskLogStreamName gives an error when describe-tasks fails, 'task
\* not found' for no task, 'no containers' for a first task without
\* containers, and in every other case the first container's name with no
\* error; every error aborts before a get-log-events request.  (Stated as the
\* claim has it; on a container without a name the code panics.)
C8_LogStreamResolution ==
  (prog = "logs" /\ lastReq.op = "DescribeTasks") =>
    IF lastReq.err
      THEN exit = "1" /\ out[1][2] = "failed to describe tasks"
    ELSE IF lastReq.resp = <<>>
      THEN exit = "1" /\ out[1][2] = "task not found"
    ELSE IF lastReq.resp[1].Containers = <<>>
      THEN exit = "1" /\ out[1][2] = "no containers found in task"
    ELSE /\ exit # "1" /\ exit # "2"
         /\ Ptr(logStreamName) = lastReq.resp[1].Containers[1].Name

\* C9: getLogEvents prints one line per served event, every event of every
\* page, in order, none dropped; after a failed page nothing more is printed.
\* (Stated as the claim has it; an event with a null timestamp or message
\* stops the printing with a panic.)
C9_OneLinePerEvent ==
  (prog = "logs" /\ stdout # <<>>) =>
    /\ Len(stdout) = 1 + Len(served)
    /\ \A i \in 1..Len(served) : Ptr(stdout[i + 1][2]) = served[i].Message

====
